---------------------------- MODULE Spec2Model ----------------------------
(***************************************************************************)
(* RES_measuring_point.py: RESMeasuringPoint.                              *)
(*                                                                         *)
(* The constructor parses the historical power file, picks the nearest     *)
(* meteo station, downloads one weather archive per year and validates     *)
(* res_type; data_collector resamples the weather to the power sampling    *)
(* period and merges both tables on 'datetime'.                            *)
(*                                                                         *)
(* Time is counted in ticks (a tick stands for a fixed number of seconds); *)
(* a day has TicksPerDay ticks, a calendar year two days, tick 0 is        *)
(* midnight of 1 January 2019.  Coordinates are multiples of 60 degrees,   *)
(* where the trigonometric functions of the haversine formula are          *)
(* rational.                                                               *)
(***************************************************************************)
EXTENDS Integers, Sequences, FiniteSets

\* ------------------------------------------------------------- bounds
MaxLen == 3         \* rows of the historical power file
MaxStations == 2    \* rows of the station registry (SpecGeo)
TicksPerDay == 3    \* ticks in a day

TicksPerYear == 2 * TicksPerDay
Years == 2019 .. 2021

\* ------------------------------------------------------------- time
\* Timestamp.year
YearOf(t) == 2019 + (t \div TicksPerYear)
\* first tick of a calendar year
YearStart(y) == (y - 2019) * TicksPerYear
\* Timestamp.normalize(): midnight of the timestamp's day
Normalize(t) == t - (t % TicksPerDay)

\* ------------------------------------------------------------- inputs
\* timestamps a power file may hold: the first two ticks of each year
PowerTimes == { YearStart(y) + o : y \in Years, o \in {0, 1} }
\* the 'datetime' column of the rows of a power file, in file order
PowerFiles == UNION { [1 .. n -> PowerTimes] : n \in 0 .. MaxLen }

Angles == {-60, 0, 60}
Coords == [lon : Angles, lat : Angles]
\* a registry file: row i has code i
RegistryOf(cs) == [i \in 1 .. Len(cs) |-> [code |-> i, lat |-> cs[i].lat, lon |-> cs[i].lon]]
Registries == { RegistryOf(cs) : cs \in UNION { [1 .. n -> Coords] : n \in 1 .. MaxStations } }
MainRegistry == RegistryOf(<< [lon |-> 0, lat |-> 60], [lon |-> 60, lat |-> 0] >>)

ResTypeInputs == {"wind", "pv", "solar"}
Statuses == {200, 404, 500}

WeatherColumns == {"clouds", "wind_dir", "wind_speed", "temp", "sun"}
\* a numeric cell: the fraction n/d; NaN is the cell with d = 0
NaN == [n |-> 0, d |-> 0]
Num(k) == [n |-> k, d |-> 1]
\* what the station observed at tick t
Observed(t) ==
    [datetime |-> t,
     clouds |-> Num(50 + 10 * ((t * t) % 7)),
     wind_dir |-> Num((130 * t * t) % 360),
     wind_speed |-> Num((t * t * t) % 11),
     temp |-> Num(((5 * t * t) % 17) - 8),
     sun |-> Num((t \div 2) % 2)]

\* the body of a response: not a zip archive, an archive without the expected
\* member, an archive whose csv cannot be parsed or lacks the selected columns,
\* or an archive whose csv holds the observations of the year at ticks
\* phase, phase + stride, ...
CsvPatterns == { << 1, 0 >>, << 2, 0 >>, << 2, 1 >>, << 3, 1 >> }
Bodies == [kind : {"notzip", "nocsv", "badcsv"}, stride : {1}, phase : {0}]
          \cup { [kind |-> "csv", stride |-> sp[1], phase |-> sp[2]] : sp \in CsvPatterns }
NoBody == [kind |-> "none", stride |-> 1, phase |-> 0]
NoResponse == [status |-> 0, body |-> NoBody]
NoStation == [code |-> 0, lat |-> 0, lon |-> 0]
NoError == [type |-> "", status |-> 0, line |-> 0]
NoCall == [op |-> "", value |-> ""]
NotCollected == [done |-> FALSE, ok |-> FALSE, sampling_period |-> 0,
                 weather_df |-> << >>, df_merged |-> << >>]

VARIABLES
    power_file,     \* rows of the file at hist_data_path
    registry,       \* rows of the file at WEATHER_STATION_PATH
    cords,          \* constructor argument cords, as [lon, lat]
    res_type_arg,   \* constructor argument res_type ("" until it is read)
    pc,             \* position in the constructor, or "constructed" / "failed"
    hist_df,        \* self.__hist_df
    meteo_code,     \* self.__meteo_code
    years, yi,      \* the list years and the index of the loop over it
    r,              \* the response of the last requests.get
    fetched,        \* the years requested so far, in order
    dfs,            \* the list dfs
    weather,        \* self.__weather
    tmp,            \* the files under tmp/
    res_type,       \* self.__res_type ("" while unset)
    raised,         \* the exception raised by the last operation
    call,           \* the last operation on the constructed object
    collected       \* what the last data_collector call computed

vars == << power_file, registry, cords, res_type_arg, pc, hist_df, meteo_code, years, yi,
           r, fetched, dfs, weather, tmp, res_type, raised, call, collected >>

env == << power_file, registry, cords, res_type_arg >>

\* ------------------------------------------------------------- haversine
\* 2 * cos(deg), for deg a multiple of 60
Cos2(deg) ==
    CASE deg = 0 -> 2
      [] deg \in {60, -60} -> 1
      [] deg \in {120, -120} -> -1
      [] deg \in {180, -180} -> -2
\* 4 * sin(deg / 2) ** 2, for deg a multiple of 60
Sin2Half4(deg) == 2 - Cos2(deg)
\* c = 2 * asin(sqrt(a)) in units of 1/10000 radian, for a = a16 / 16
ArcOf(a16) ==
    << 0, 5054, 7227, 8957, 10472, 11864, 13181, 14455, 15708,
       16961, 18235, 19552, 20944, 22459, 24189, 26362, 31416 >>[a16 + 1]
\* r
EarthRadiusKm == 6371
\* haversine(lon1, lat1, lon2, lat2), in units of 1/10000 km
Haversine(lon1, lat1, lon2, lat2) ==
    LET dlon == lon2 - lon1
        dlat == lat2 - lat1
        a16 == 4 * Sin2Half4(dlat) + Cos2(lat1) * Cos2(lat2) * Sin2Half4(dlon)
        c == ArcOf(a16)
    IN  c * EarthRadiusKm

\* the positional arguments of the haversine call for registry row x
HaversineArgs(x, lon, lat) == << x.lat, x.lon, lon, lat >>
\* df.apply(lambda x: self.haversine(...), axis=1)
Distances(df, lon, lat) ==
    [i \in 1 .. Len(df) |->
        LET a == HaversineArgs(df[i], lon, lat) IN Haversine(a[1], a[2], a[3], a[4])]
\* Series.idxmin(): the first position of the minimum
IdxMin(s) ==
    CHOOSE i \in 1 .. Len(s) :
        /\ \A j \in 1 .. Len(s) : s[i] <= s[j]
        /\ \A j \in 1 .. (i - 1) : s[j] > s[i]
\* find_nearest_meteo_station
FindNearestMeteoStation(df, lon, lat) == df[IdxMin(Distances(df, lon, lat))]

\* ------------------------------------------------------------- construction
\* hist_df_parser: the rows of the file as [datetime, power]
HistDfParser(file) == [i \in 1 .. Len(file) |-> [datetime |-> file[i], power |-> 100 + 10 * i]]

InitObject ==
    /\ pc = "hist_df_parser"
    /\ hist_df = << >>
    /\ meteo_code = NoStation
    /\ years = << >>
    /\ yi = 0
    /\ r = NoResponse
    /\ fetched = << >>
    /\ dfs = << >>
    /\ weather = << >>
    /\ tmp = {}
    /\ res_type = ""
    /\ raised = NoError
    /\ call = NoCall
    /\ collected = NotCollected

Init ==
    /\ power_file \in PowerFiles
    /\ registry = MainRegistry
    /\ cords = [lon |-> 0, lat |-> 60]
    /\ res_type_arg = ""
    /\ InitObject

\* __init__, line 34
ParseHistDf ==
    /\ pc = "hist_df_parser"
    /\ hist_df' = HistDfParser(power_file)
    /\ pc' = "find_nearest_meteo_station"
    /\ UNCHANGED << env, meteo_code, years, yi, r, fetched, dfs, weather, tmp, res_type,
                    raised, call, collected >>

\* __init__, line 37
FindNearest ==
    /\ pc = "find_nearest_meteo_station"
    /\ meteo_code' = FindNearestMeteoStation(registry, cords.lon, cords.lat)
    /\ pc' = "download_hist_weather_data"
    /\ UNCHANGED << env, hist_df, years, yi, r, fetched, dfs, weather, tmp, res_type,
                    raised, call, collected >>

\* ------------------------------------------------------------- download
\* list(range(a, b))
Range(a, b) == [i \in 1 .. (IF b > a THEN b - a ELSE 0) |-> a + i - 1]
\* the years with the year of the first sample included
YearsOfInclusive(df) == Range(YearOf(df[Len(df)].datetime), YearOf(df[1].datetime) + 1)
\* the list years of download_hist_weather_data
YearsOf(df) == Range(YearOf(df[Len(df)].datetime), YearOf(df[1].datetime))

\* a check of the status that lets client errors through
OkUnlessServerError(status) == ~(500 <= status /\ status < 600)
\* Response.ok: the status is no client or server error
Ok(status) == ~(400 <= status /\ status < 600)
\* what requests.get may return
Responses ==
    { resp \in [status : Statuses, body : Bodies \cup {NoBody}] :
        (resp.status < 400) <=> (resp.body # NoBody) }
\* the ValueError of lines 113-114, whose message gives the response code
FetchError(status) == [type |-> "ValueError", status |-> status, line |-> 113]
Error(type, line) == [type |-> type, status |-> 0, line |-> line]

\* tmp/{year}_{code}_s.zip and tmp/s_t_{code}_{year}.csv
ZipFile(code, year) == [ext |-> "zip", code |-> code, year |-> year]
CsvFile(code, year) == [ext |-> "csv", code |-> code, year |-> year]
\* the files ZipFile.extractall writes
Members(body, code, year) ==
    IF body.kind \in {"badcsv", "csv"} THEN {CsvFile(code, year)} ELSE {}

\* the rows read_csv returns for the csv of a year, columns selected and renamed
ArchiveRows(body, year) ==
    LET n == (TicksPerYear - 1 - body.phase) \div body.stride + 1
    IN  IF body.phase >= TicksPerYear THEN << >>
        ELSE [i \in 1 .. n |-> Observed(YearStart(year) + body.phase + (i - 1) * body.stride)]

RECURSIVE Concat(_)
\* pd.concat(dfs)
Concat(list) == IF list = << >> THEN << >> ELSE Head(list) \o Concat(Tail(list))

\* download_hist_weather_data, lines 100-103
StartDownload ==
    /\ pc = "download_hist_weather_data"
    /\ IF hist_df = << >>
       THEN /\ pc' = "failed"
            /\ raised' = Error("IndexError", 100)
            /\ UNCHANGED << years, yi >>
       ELSE /\ years' = YearsOf(hist_df)
            /\ yi' = 1
            /\ pc' = "for_year"
            /\ UNCHANGED raised
    /\ UNCHANGED << env, hist_df, meteo_code, r, fetched, dfs, weather, tmp, res_type,
                    call, collected >>

\* lines 105-114: requests.get and the check of r.ok
Fetch ==
    /\ pc = "for_year"
    /\ yi <= Len(years)
    /\ \E resp \in Responses :
        /\ r' = resp
        /\ fetched' = Append(fetched, years[yi])
        /\ IF Ok(resp.status)
           THEN pc' = "write_zip" /\ UNCHANGED raised
           ELSE pc' = "failed" /\ raised' = FetchError(resp.status)
    /\ UNCHANGED << env, hist_df, meteo_code, years, yi, dfs, weather, tmp, res_type,
                    call, collected >>

\* lines 116-117
WriteZip ==
    /\ pc = "write_zip"
    /\ tmp' = tmp \cup {ZipFile(meteo_code.code, years[yi])}
    /\ pc' = "extractall"
    /\ UNCHANGED << env, hist_df, meteo_code, years, yi, r, fetched, dfs, weather, res_type,
                    raised, call, collected >>

\* lines 119-120
ExtractAll ==
    /\ pc = "extractall"
    /\ IF r.body.kind = "notzip"
       THEN pc' = "failed" /\ raised' = Error("BadZipFile", 119) /\ UNCHANGED tmp
       ELSE /\ tmp' = tmp \cup Members(r.body, meteo_code.code, years[yi])
            /\ pc' = "read_csv"
            /\ UNCHANGED raised
    /\ UNCHANGED << env, hist_df, meteo_code, years, yi, r, fetched, dfs, weather, res_type,
                    call, collected >>

\* lines 122-127
ReadCsv ==
    /\ pc = "read_csv"
    /\ CASE r.body.kind = "nocsv" -> pc' = "failed" /\ raised' = Error("FileNotFoundError", 122)
         [] r.body.kind = "badcsv" -> pc' = "failed" /\ raised' = Error("KeyError", 126)
         [] OTHER -> pc' = "remove_zip" /\ UNCHANGED raised
    /\ UNCHANGED << env, hist_df, meteo_code, years, yi, r, fetched, dfs, weather, tmp,
                    res_type, call, collected >>

\* line 129
RemoveZip ==
    /\ pc = "remove_zip"
    /\ tmp' = tmp \ {ZipFile(meteo_code.code, years[yi])}
    /\ pc' = "remove_csv"
    /\ UNCHANGED << env, hist_df, meteo_code, years, yi, r, fetched, dfs, weather, res_type,
                    raised, call, collected >>

\* lines 130-131
RemoveCsv ==
    /\ pc = "remove_csv"
    /\ tmp' = tmp \ {CsvFile(meteo_code.code, years[yi])}
    /\ dfs' = Append(dfs, ArchiveRows(r.body, years[yi]))
    /\ yi' = yi + 1
    /\ pc' = "for_year"
    /\ UNCHANGED << env, hist_df, meteo_code, years, r, fetched, weather, res_type,
                    raised, call, collected >>

\* lines 132-133, and __init__ line 38
ConcatDfs ==
    /\ pc = "for_year"
    /\ yi > Len(years)
    /\ IF dfs = << >>
       THEN pc' = "failed" /\ raised' = Error("ValueError", 132) /\ UNCHANGED weather
       ELSE weather' = Concat(dfs) /\ pc' = "set_res_type" /\ UNCHANGED raised
    /\ UNCHANGED << env, hist_df, meteo_code, years, yi, r, fetched, dfs, tmp, res_type,
                    call, collected >>

\* ------------------------------------------------------------- res_type
\* a setter that accepts every value
AnyResType(v) == v \in ResTypeInputs
\* the check of the res_type setter
ValidResType(v) == v \in {"wind", "pv"}

\* __init__, line 39
SetResType ==
    /\ pc = "set_res_type"
    /\ \E v \in ResTypeInputs :
        /\ res_type_arg' = v
        /\ IF ValidResType(v)
           THEN res_type' = v /\ pc' = "constructed" /\ UNCHANGED raised
           ELSE pc' = "failed" /\ raised' = Error("ValueError", 48) /\ UNCHANGED res_type
    /\ UNCHANGED << power_file, registry, cords, hist_df, meteo_code, years, yi, r, fetched, dfs, weather, tmp,
                    call, collected >>

\* point.res_type = v
AssignResType ==
    /\ pc = "constructed"
    /\ \E v \in ResTypeInputs :
        /\ call' = [op |-> "res_type", value |-> v]
        /\ IF ValidResType(v)
           THEN res_type' = v /\ raised' = NoError
           ELSE raised' = Error("ValueError", 48) /\ UNCHANGED res_type
    /\ UNCHANGED << env, pc, hist_df, meteo_code, years, yi, r, fetched, dfs, weather, tmp,
                    collected >>

\* ------------------------------------------------------------- data_collector
Min(S) == CHOOSE x \in S : \A y \in S : x <= y
Max(S) == CHOOSE x \in S : \A y \in S : x >= y
RECURSIVE Gcd(_, _)
Gcd(a, b) == IF b = 0 THEN a ELSE Gcd(b, a % b)
Abs(x) == IF x < 0 THEN -x ELSE x
\* the fraction n/d in lowest terms, d > 0
Frac(n, d) == LET g == Gcd(Abs(n), d) IN [n |-> n \div g, d |-> d \div g]
IsNaN(v) == v.d = 0

\* line 62: the first 'datetime' minus the second
SamplingPeriod(df) == df[1].datetime - df[2].datetime

\* TimeGrouper._get_time_bins with closed = 'left', origin = 'start_day', and
\* _adjust_binner_for_upsample: the index of the resampled table
ResampleIndex(w, p) ==
    LET ax == { w[i].datetime : i \in 1 .. Len(w) }
        first == Min(ax)
        last == Max(ax)
        origin == Normalize(first)
        foffset == (first - origin) % p
        loffset == (last - origin) % p
        fresult == IF foffset > 0 THEN first - foffset ELSE first
        lresult == IF loffset > 0 THEN last + (p - loffset) ELSE last + p
        binner == [i \in 1 .. ((lresult - fresult) \div p + 1) |-> fresult + (i - 1) * p]
    IN  SubSeq(binner, 1, Len(binner) - 1)

\* DatetimeIndex.inferred_freq in ticks, 0 for None: at least three timestamps,
\* all the same distance apart
InferredFreq(w) ==
    IF Len(w) >= 3 /\ \A i \in 2 .. Len(w) :
                         w[i].datetime - w[i - 1].datetime = w[2].datetime - w[1].datetime
    THEN w[2].datetime - w[1].datetime
    ELSE 0

NaNRow(t) == [c \in WeatherColumns \cup {"datetime"} |-> IF c = "datetime" THEN t ELSE NaN]

\* Resampler._upsample("asfreq"): the rows relabelled when the table already
\* has the frequency, else reindexed by the resampled index
Upsample(w, p) ==
    LET res_index == ResampleIndex(w, p)
    IN  IF InferredFreq(w) = p /\ Len(w) = Len(res_index)
        THEN [i \in 1 .. Len(w) |-> [w[i] EXCEPT !.datetime = res_index[i]]]
        ELSE [i \in 1 .. Len(res_index) |->
                IF \E j \in 1 .. Len(w) : w[j].datetime = res_index[i]
                THEN w[CHOOSE j \in 1 .. Len(w) : w[j].datetime = res_index[i]]
                ELSE NaNRow(res_index[i])]

\* DataFrame.interpolate(method='linear', limit_direction='forward') of a column:
\* rows count as equally spaced; NaN before the first value stays, NaN after
\* the last value takes the last value
InterpolateCell(rows, c, i) ==
    LET before == { j \in 1 .. (i - 1) : ~IsNaN(rows[j][c]) }
        after == { j \in (i + 1) .. Len(rows) : ~IsNaN(rows[j][c]) }
    IN  IF ~IsNaN(rows[i][c]) THEN rows[i][c]
        ELSE IF before = {} THEN NaN
        ELSE IF after = {} THEN rows[Max(before)][c]
        ELSE LET a == Max(before)
                 b == Min(after)
                 va == rows[a][c]
                 vb == rows[b][c]
             IN  Frac(va.n * vb.d * (b - i) + vb.n * va.d * (i - a), va.d * vb.d * (b - a))
Interpolate(rows) ==
    [i \in 1 .. Len(rows) |->
        [c \in WeatherColumns \cup {"datetime"} |->
            IF c = "datetime" THEN rows[i].datetime ELSE InterpolateCell(rows, c, i)]]

\* line 63: self.__weather.resample(period).interpolate()
Resample(w, p) == Interpolate(Upsample(w, p))

RECURSIVE MergeLeft(_, _)
\* a left join: a row of left without a match is kept, with NaN cells
MergeLeft(left, right) ==
    IF left = << >> THEN << >>
    ELSE LET l == Head(left)
             hits == SelectSeq(right, LAMBDA x : x.datetime = l.datetime)
         IN  (IF hits = << >>
              THEN << [row |-> l, weather |-> NaNRow(l.datetime)] >>
              ELSE [k \in 1 .. Len(hits) |-> [row |-> l, weather |-> hits[k]]])
             \o MergeLeft(Tail(left), right)

RECURSIVE Merge(_, _)
\* line 64: pd.merge(left, right, on='datetime'), an inner join in the order of left
Merge(left, right) ==
    IF left = << >> THEN << >>
    ELSE LET l == Head(left)
             hits == SelectSeq(right, LAMBDA x : x.datetime = l.datetime)
         IN  [k \in 1 .. Len(hits) |-> [row |-> l, weather |-> hits[k]]]
             \o Merge(Tail(left), right)

\* lines 65-67
Stamp(rows, rt, name, installed_power) ==
    [i \in 1 .. Len(rows) |->
        [datetime |-> rows[i].row.datetime, power |-> rows[i].row.power,
         weather |-> rows[i].weather,
         RES_type |-> rt, name |-> name, installed_power |-> installed_power]]

\* point.data_collector(); a period that is no positive number of seconds is
\* rejected by resample
DataCollector ==
    /\ pc = "constructed"
    /\ call' = [op |-> "data_collector", value |-> ""]
    /\ LET sampling_period == SamplingPeriod(hist_df)
       IN  IF sampling_period <= 0
           THEN /\ raised' = Error("ValueError", 63)
                /\ collected' = [done |-> TRUE, ok |-> FALSE,
                                 sampling_period |-> sampling_period,
                                 weather_df |-> << >>, df_merged |-> << >>]
           ELSE LET weather_df == Resample(weather, sampling_period)
                IN  /\ raised' = NoError
                    /\ collected' = [done |-> TRUE, ok |-> TRUE,
                                     sampling_period |-> sampling_period,
                                     weather_df |-> weather_df,
                                     df_merged |-> Stamp(Merge(hist_df, weather_df),
                                                         res_type, "first", "5000.5")]
    /\ UNCHANGED << env, pc, hist_df, meteo_code, years, yi, r, fetched, dfs, weather, tmp,
                    res_type >>

Next ==
    \/ ParseHistDf
    \/ FindNearest
    \/ StartDownload
    \/ Fetch
    \/ WriteZip
    \/ ExtractAll
    \/ ReadCsv
    \/ RemoveZip
    \/ RemoveCsv
    \/ ConcatDfs
    \/ SetResType
    \/ AssignResType
    \/ DataCollector
Spec == Init /\ [][Next]_vars

\* the registry and the site range over the coordinate lattice
InitGeo ==
    /\ power_file \in { << YearStart(2020) + 1, YearStart(2020), YearStart(2019) + 1 >>, << >> }
    /\ registry \in Registries
    /\ cords \in Coords
    /\ res_type_arg = ""
    /\ InitObject
SpecGeo == InitGeo /\ [][Next]_vars

\* ------------------------------------------------------------- properties
YearsComputed == pc \notin {"hist_df_parser", "find_nearest_meteo_station",
                            "download_hist_weather_data"} /\ hist_df # << >>
\* a per-year load has returned or raised
LoadExited == fetched # << >> /\ pc \in {"for_year", "set_res_type", "constructed", "failed"}
Datetimes(rows) == { rows[i].datetime : i \in 1 .. Len(rows) }

\* C1: whenever a per-year archive load has returned or raised, neither the zip
\* it downloaded nor the csv it extracted exists under tmp/.
C1_TempFilesRemoved ==
    LoadExited =>
        LET year == fetched[Len(fetched)]
        IN  /\ ZipFile(meteo_code.code, year) \notin tmp
            /\ CsvFile(meteo_code.code, year) \notin tmp

\* C2: when the fetch of a year returns a status of 400 or more, the constructor
\* has failed with the error of the fetch, which carries that status, and no
\* file is left under tmp/.
C2_FetchError ==
    (r # NoResponse /\ r.status >= 400) =>
        /\ pc = "failed"
        /\ raised.type = "ValueError" /\ raised.line = 113
        /\ raised.status = r.status
        /\ tmp = {}
\* the fetch of the second year was rejected after the first year was loaded
C2_Witness ==
    /\ pc = "failed"
    /\ Len(fetched) = 2
    /\ r.status = 404
    /\ raised.status = 404
    /\ Len(dfs) = 1

\* C3: the years loaded are exactly the years from the earliest to the latest
\* year of the first and last power samples, both included.
C3_YearsInclusive ==
    YearsComputed =>
        LET a == YearOf(hist_df[1].datetime)
            b == YearOf(hist_df[Len(hist_df)].datetime)
        IN  { years[i] : i \in 1 .. Len(years) } =
                (IF a <= b THEN a ELSE b) .. (IF a <= b THEN b ELSE a)

\* C4: the table data_collector returns has as many rows as the power series.
C4_OneRowPerSample ==
    collected.ok => Len(collected.df_merged) = Len(hist_df)

\* C5: the merged table has at most as many rows as the power series, and every
\* timestamp of it is a timestamp of the power series and of the aligned
\* weather table.
C5_Fuse ==
    collected.ok =>
        /\ Len(collected.df_merged) <= Len(hist_df)
        /\ \A i \in 1 .. Len(collected.df_merged) :
            /\ collected.df_merged[i].datetime \in Datetimes(hist_df)
            /\ collected.df_merged[i].datetime \in Datetimes(collected.weather_df)
\* a merge that kept one power sample and dropped another
C5_Witness ==
    /\ collected.ok
    /\ Len(collected.df_merged) >= 1
    /\ Len(collected.df_merged) < Len(hist_df)
    /\ \E i \in 1 .. Len(hist_df) : hist_df[i].datetime \notin Datetimes(collected.weather_df)

\* the great-circle distance of a station to the site
StationDistance(st) == Haversine(st.lon, st.lat, cords.lon, cords.lat)
\* C6: the station chosen is no farther from the site than any station of the
\* registry, and is the first of the registry at that distance.
C6_Nearest ==
    meteo_code # NoStation =>
        /\ \A i \in 1 .. Len(registry) :
                StationDistance(meteo_code) <= StationDistance(registry[i])
        /\ \A i \in 1 .. (meteo_code.code - 1) :
                StationDistance(registry[i]) > StationDistance(meteo_code)

\* C7: the sampling period used to resample is the absolute difference of the
\* first two power timestamps.
C7_SamplingPeriod ==
    collected.done =>
        collected.sampling_period = Abs(hist_df[1].datetime - hist_df[2].datetime)

\* C8: in the aligned weather table a row at the timestamp of an observation
\* holds the observation, a row between two consecutive observations holds the
\* linear interpolation over time of the two, and outside the span of the
\* observations no value exists (a row there, if any, holds NaN only).
C8_Interpolation ==
    collected.ok =>
        \A i \in 1 .. Len(collected.weather_df) : \A c \in WeatherColumns :
            LET t == collected.weather_df[i].datetime
                v == collected.weather_df[i][c]
                obs == Datetimes(weather)
                At(u) == weather[CHOOSE j \in 1 .. Len(weather) : weather[j].datetime = u][c]
            IN  /\ (t < Min(obs) \/ t > Max(obs)) => v = NaN
                /\ t \in obs => v = At(t)
                /\ (Min(obs) < t /\ t < Max(obs) /\ t \notin obs) =>
                    LET a == Max({ u \in obs : u < t })
                        b == Min({ u \in obs : u > t })
                    IN  /\ v.d # 0
                        /\ v.n * (b - a) = v.d * (At(a).n * (b - t) + At(b).n * (t - a))

\* C9: the constructor fails with the error of the setter when res_type is
\* neither "wind" nor "pv" and stores it otherwise; a later assignment of such a
\* value raises the same error and leaves res_type as it was, and a later
\* assignment of "wind" or "pv" stores it.
C9_ResType ==
    /\ [](/\ pc = "constructed" => res_type \in {"wind", "pv"}
          /\ res_type_arg \in {"wind", "pv"} => pc = "constructed"
          /\ (res_type_arg # "" /\ res_type_arg \notin {"wind", "pv"}) =>
                pc = "failed" /\ raised.type = "ValueError" /\ raised.line = 48
          /\ (call.op = "" /\ pc = "constructed") => res_type = res_type_arg
          /\ (call.op = "res_type" /\ call.value \in {"wind", "pv"}) =>
                res_type = call.value /\ raised = NoError
          /\ (call.op = "res_type" /\ call.value \notin {"wind", "pv"}) =>
                raised.type = "ValueError" /\ raised.line = 48)
    /\ [][(call'.op = "res_type" /\ call'.value \notin {"wind", "pv"}) =>
                res_type' = res_type]_vars
\* a site constructed as "wind" refused the later assignment of "solar"
C9_Witness ==
    /\ pc = "constructed"
    /\ res_type_arg = "wind"
    /\ call = [op |-> "res_type", value |-> "solar"]
    /\ raised.type = "ValueError"
    /\ res_type = "wind"

\* C10: the years fetched are, in ascending order, the years from the year of
\* the last power sample up to but excluding the year of the first; when there
\* is none, nothing is fetched, tmp/ stays empty and the constructor fails at
\* the concatenation instead of yielding a site.
C10_YearsFetched ==
    YearsComputed =>
        LET first == YearOf(hist_df[1].datetime)
            last == YearOf(hist_df[Len(hist_df)].datetime)
        IN  /\ years = [i \in 1 .. (IF first > last THEN first - last ELSE 0) |-> last + i - 1]
            /\ Len(fetched) <= Len(years)
            /\ fetched = SubSeq(years, 1, Len(fetched))
            /\ first <= last =>
                /\ fetched = << >>
                /\ tmp = {}
                /\ weather = << >>
                /\ pc \in {"for_year", "failed"}
                /\ pc = "failed" => raised = Error("ValueError", 132)
\* a power series in ascending order over two years failed at the concatenation
C10_Witness ==
    /\ pc = "failed"
    /\ Len(hist_df) >= 2
    /\ YearOf(hist_df[1].datetime) < YearOf(hist_df[Len(hist_df)].datetime)
    /\ years = << >>
    /\ fetched = << >>
    /\ raised = Error("ValueError", 132)

=============================================================================
